---- MODULE Spec2Model ----
(***************************************************************************)
(* x402 challenge/response payment flow of server.py: the Resource Guard   *)
(* installed by init_x402/@pay on /api/data-feed, the orchestrator         *)
(* manual_x402_solana_flow and its wrapper run_zerebro_agent_wrapper.      *)
(***************************************************************************)
EXTENDS Integers, Sequences, FiniteSets, TLC

VARIABLES pc, invocation, gets, resp1, resp2, payment_requirements,
          pay_to_address, rpcCalls, signCalls, signOk, recent_blockhash,
          transaction, payment_payload, result, error, wrapperResp,
          served1, served2, rpcOutcome, guardLast, signOutcome, chainSubmits,
          signature, totalSignOk, totalRetries, acceptedProof, executions,
          presented, parked, current

vars == <<pc, invocation, gets, resp1, resp2, payment_requirements,
          pay_to_address, rpcCalls, signCalls, signOk, recent_blockhash,
          transaction, payment_payload, result, error, wrapperResp,
          served1, served2, rpcOutcome, guardLast, signOutcome, chainSubmits,
          signature, totalSignOk, totalRetries, acceptedProof, executions,
          presented, parked, current>>

(* ---------------------------------------------------------------- bounds *)
MaxInvocations == 2
\* how often one accepted proof is presented to the guard
MaxReplays == 2

(* --------------------------------------------------------- configuration *)
NETWORK == "solana"
MERCHANT_WALLET == "MerchantWallet"
CDP_AGENT_ADDRESS == "AgentWallet"
OtherWallet == "OtherWallet"
target_url == "http://127.0.0.1:8000/api/data-feed"
\* the price string of @pay("$0.01", ...), character by character
PRICE == <<"$", "0", ".", "0", "1">>
ASSET_Native == "SOL"

ASSET == "USDC"
lamports_to_send == 1
X402_VERSION == 1
PROOF_SCHEME == "exact"

\* what the guard expects beyond the arguments server.py passes to it
GUARD_SCHEME == "exact"
ASSET_DECIMALS == 6

(* ------------------------------------------------------------ data model *)
NoTx == [kind |-> "none", from |-> "", to |-> "", amount |-> 0, asset |-> "",
         recent_blockhash |-> "", fee_payer |-> "", signed |-> FALSE]
GarbageTx == [NoTx EXCEPT !.kind = "garbage"]

NoProof == [x402Version |-> 0, scheme |-> "", network |-> "", payload |-> NoTx]

NoDescriptor == [scheme |-> "", network |-> "", payTo |-> "", hasPayTo |-> FALSE,
                 asset |-> "", amount |-> <<>>]

NoBody == [json |-> FALSE, hasAccepts |-> FALSE, accepts |-> <<>>, data |-> ""]
NoResponse == [status |-> 0, body |-> NoBody]
NoWrapperResp == [status |-> 0, body |-> NoBody, detail |-> ""]

\* the JSON object premium_data_endpoint returns
PremiumData == [json |-> TRUE, hasAccepts |-> FALSE, accepts |-> <<>>,
                data |-> "SUCCESS: Autonomous ZEREBRO agent data feed unlocked on SOLANA MAINNET."]

ValidPublicKey_Unchecked(s) == TRUE

\* PublicKey(value) raises ValueError unless value is a base58 string of 32 bytes
ValidPublicKey(s) == s \in {MERCHANT_WALLET, CDP_AGENT_ADDRESS, OtherWallet}

\* base64.b64encode(json.dumps(payload).encode()).decode(): the header value is
\* well-formed base64 of well-formed JSON carrying the payload
EncodeHeader(payload) == [b64 |-> TRUE, json |-> TRUE, proof |-> payload]

\* headers = {"X-PAYMENT": x_payment_header}
PaymentHeaders(value) == << [name |-> "X-PAYMENT", value |-> value] >>
NoHeaders == << >>

(* -------------------------------------------------------- Resource Guard *)
DigitValue(c) ==
    CASE c = "0" -> 0 [] c = "1" -> 1 [] c = "2" -> 2 [] c = "3" -> 3
      [] c = "4" -> 4 [] c = "5" -> 5 [] c = "6" -> 6 [] c = "7" -> 7
      [] c = "8" -> 8 [] c = "9" -> 9

RECURSIVE Pow10(_)
Pow10(n) == IF n = 0 THEN 1 ELSE 10 * Pow10(n - 1)

\* a decimal string to atomic units of an asset with `decimals` fraction digits
RECURSIVE DecimalToAtomic(_, _, _, _)
DecimalToAtomic(s, decimals, acc, frac) ==
    IF s = << >> THEN
        IF frac < 0 THEN acc * Pow10(decimals) ELSE acc * Pow10(decimals - frac)
    ELSE IF Head(s) = "." THEN DecimalToAtomic(Tail(s), decimals, acc, 0)
    ELSE DecimalToAtomic(Tail(s), decimals, acc * 10 + DigitValue(Head(s)),
                         IF frac < 0 THEN frac ELSE frac + 1)

\* "$0.01" -> "0.01"
PriceAmount(price) == IF price # << >> /\ Head(price) = "$" THEN Tail(price) ELSE price

RequiredAtomic == DecimalToAtomic(PriceAmount(PRICE), ASSET_DECIMALS, 0, -1)

\* the single descriptor the guard offers
ConfiguredDescriptor ==
    [scheme |-> GUARD_SCHEME, network |-> NETWORK, payTo |-> MERCHANT_WALLET,
     hasPayTo |-> TRUE, asset |-> ASSET, amount |-> PriceAmount(PRICE)]

PaymentRequiredBody ==
    [json |-> TRUE, hasAccepts |-> TRUE, accepts |-> <<ConfiguredDescriptor>>, data |-> ""]

HasProofHeader(headers) == \E i \in 1..Len(headers) : headers[i].name = "X-PAYMENT"

ProofHeaderValue(headers) ==
    headers[CHOOSE i \in 1..Len(headers) : headers[i].name = "X-PAYMENT"].value

\* base64 and JSON decoding of the header value succeed
Decodes(value) == value.b64 /\ value.json

TransferSatisfies_StrictlyMore(tx) ==
    /\ tx.kind = "tx"
    /\ tx.signed
    /\ tx.to = MERCHANT_WALLET
    /\ tx.asset = ASSET
    /\ tx.amount > RequiredAtomic

\* the embedded transaction is a well-formed signed transfer of at least the
\* required amount of the priced asset to the configured recipient
TransferSatisfies(tx) ==
    /\ tx.kind = "tx"
    /\ tx.signed
    /\ tx.to = MERCHANT_WALLET
    /\ tx.asset = ASSET
    /\ tx.amount >= RequiredAtomic

ValidProof_AnyScheme(proof) ==
    /\ proof.x402Version = X402_VERSION
    /\ proof.network = NETWORK
    /\ TransferSatisfies(proof.payload)

ValidProof(proof) ==
    /\ proof.x402Version = X402_VERSION
    /\ proof.scheme = GUARD_SCHEME
    /\ proof.network = NETWORK
    /\ TransferSatisfies(proof.payload)

\* a variant that remembers the proof it accepted and turns its replay down
GuardHandle_ReplayProtected(headers) ==
    IF ~HasProofHeader(headers) THEN
        [validated |-> FALSE, invoked |-> 0,
         response |-> [status |-> 402, body |-> PaymentRequiredBody]]
    ELSE IF /\ Decodes(ProofHeaderValue(headers))
            /\ ValidProof(ProofHeaderValue(headers).proof)
            /\ headers # acceptedProof THEN
        [validated |-> TRUE, invoked |-> 1,
         response |-> [status |-> 200, body |-> PremiumData]]
    ELSE
        [validated |-> FALSE, invoked |-> 0,
         response |-> [status |-> 402, body |-> PaymentRequiredBody]]

\* a variant that runs the protected operation again to build the response
GuardHandle_InvokedTwice(headers) ==
    IF ~HasProofHeader(headers) THEN
        [validated |-> FALSE, invoked |-> 0,
         response |-> [status |-> 402, body |-> PaymentRequiredBody]]
    ELSE IF Decodes(ProofHeaderValue(headers)) /\ ValidProof(ProofHeaderValue(headers).proof) THEN
        [validated |-> TRUE, invoked |-> 2,
         response |-> [status |-> 200, body |-> PremiumData]]
    ELSE
        [validated |-> FALSE, invoked |-> 0,
         response |-> [status |-> 402, body |-> PaymentRequiredBody]]

\* one request to GET /api/data-feed: the guard's verdict, whether the protected
\* operation premium_data_endpoint ran, and the response
GuardHandle(headers) ==
    IF ~HasProofHeader(headers) THEN
        [validated |-> FALSE, invoked |-> 0,
         response |-> [status |-> 402, body |-> PaymentRequiredBody]]
    ELSE IF Decodes(ProofHeaderValue(headers)) /\ ValidProof(ProofHeaderValue(headers).proof) THEN
        [validated |-> TRUE, invoked |-> 1,
         response |-> [status |-> 200, body |-> PremiumData]]
    ELSE
        [validated |-> FALSE, invoked |-> 0,
         response |-> [status |-> 402, body |-> PaymentRequiredBody]]

GuardRecord(headers) ==
    [handled |-> TRUE, headers |-> headers,
     validated |-> GuardHandle(headers).validated,
     invoked |-> GuardHandle(headers).invoked,
     response |-> GuardHandle(headers).response]

NoGuardRecord ==
    [handled |-> FALSE, headers |-> NoHeaders, validated |-> FALSE, invoked |-> 0,
     response |-> NoResponse]

\* the guard handles one request; the executions of premium_data_endpoint are
\* counted for the accepted proof presented most recently: a request without a
\* proof leaves the count alone, a request with another proof starts it again
GuardServe(headers) ==
    /\ ~(HasProofHeader(headers) /\ headers = acceptedProof /\ presented >= MaxReplays)
    /\ guardLast' = GuardRecord(headers)
    /\ IF ~HasProofHeader(headers) THEN
          UNCHANGED <<acceptedProof, executions, presented>>
       ELSE IF headers = acceptedProof THEN
          /\ executions' = executions + GuardHandle(headers).invoked
          /\ presented' = presented + 1
          /\ UNCHANGED acceptedProof
       ELSE IF GuardHandle(headers).invoked > 0 THEN
          /\ acceptedProof' = headers
          /\ executions' = GuardHandle(headers).invoked
          /\ presented' = 1
       ELSE
          /\ acceptedProof' = NoHeaders
          /\ executions' = 0
          /\ presented' = 0

(* ------------------------------------------------- inputs (environment) *)
\* a transfer of the priced asset that satisfies the configured requirement
PayingTx ==
    [kind |-> "tx", from |-> CDP_AGENT_ADDRESS, to |-> MERCHANT_WALLET,
     amount |-> RequiredAtomic, asset |-> ASSET, recent_blockhash |-> "bh1",
     fee_payer |-> CDP_AGENT_ADDRESS, signed |-> TRUE]

\* transactions a client may embed in a proof
ClientTxs ==
    {GarbageTx, PayingTx,
     [PayingTx EXCEPT !.to = OtherWallet],
     [PayingTx EXCEPT !.asset = "SOL"],
     [PayingTx EXCEPT !.asset = "SOL", !.amount = lamports_to_send],
     [PayingTx EXCEPT !.amount = RequiredAtomic - 1],
     [PayingTx EXCEPT !.amount = RequiredAtomic + 1],
     [PayingTx EXCEPT !.amount = 1],
     [PayingTx EXCEPT !.signed = FALSE],
     [PayingTx EXCEPT !.recent_blockhash = "bh2"]}

PayingProof ==
    [x402Version |-> X402_VERSION, scheme |-> GUARD_SCHEME, network |-> NETWORK,
     payload |-> PayingTx]

ClientProofs ==
    { [PayingProof EXCEPT !.payload = p] : p \in ClientTxs } \cup
    { [PayingProof EXCEPT !.x402Version = 2],
      [PayingProof EXCEPT !.scheme = "upto"],
      [PayingProof EXCEPT !.network = "base"],
      [PayingProof EXCEPT !.network = "base", !.payload = [PayingTx EXCEPT !.to = OtherWallet]],
      [PayingProof EXCEPT !.x402Version = 2, !.scheme = "upto",
                          !.payload = [PayingTx EXCEPT !.amount = RequiredAtomic + 1]] }

ClientHeaderValues ==
    { EncodeHeader(p) : p \in ClientProofs } \cup
    { [b64 |-> FALSE, json |-> FALSE, proof |-> NoProof],
      [b64 |-> TRUE, json |-> FALSE, proof |-> NoProof],
      [b64 |-> FALSE, json |-> FALSE, proof |-> PayingProof],
      [b64 |-> TRUE, json |-> FALSE, proof |-> PayingProof] }

ClientHeaders == {NoHeaders} \cup { PaymentHeaders(v) : v \in ClientHeaderValues }

\* descriptors a server other than the configured guard may list: every
\* payTo the flow can meet under the configured scheme and network, and one
\* descriptor for each other scheme and network
OtherDescriptors ==
    { [scheme |-> "exact", network |-> "solana", payTo |-> p[1], hasPayTo |-> p[2],
       asset |-> "USDC", amount |-> PriceAmount(PRICE)] :
        p \in {<<MERCHANT_WALLET, TRUE>>, <<OtherWallet, TRUE>>, <<"", TRUE>>, <<"", FALSE>>} } \cup
    { [scheme |-> sn[1], network |-> sn[2], payTo |-> OtherWallet, hasPayTo |-> TRUE,
       asset |-> "USDC", amount |-> PriceAmount(PRICE)] :
        sn \in {<<"upto", "solana">>, <<"exact", "base">>, <<"upto", "base">>} }

OtherAccepts ==
    {<< >>} \cup { <<d>> : d \in OtherDescriptors }
            \cup { <<d, ConfiguredDescriptor>> : d \in OtherDescriptors }

\* responses of whatever answers at target_url when it is not the configured guard
OtherResponses ==
    { [status |-> 402, body |-> [json |-> TRUE, hasAccepts |-> TRUE, accepts |-> a, data |-> ""]] :
        a \in OtherAccepts } \cup
    { [status |-> 402, body |-> [json |-> TRUE, hasAccepts |-> FALSE, accepts |-> << >>, data |-> "{}"]] } \cup
    { [status |-> s, body |-> b] :
        s \in {200, 402, 500},
        b \in {PremiumData,
               [json |-> FALSE, hasAccepts |-> FALSE, accepts |-> << >>, data |-> "Internal Server Error"]} }

\* answers to the retry: the flow reads only whether the body parses
RetryResponses == { r \in OtherResponses : r.body.accepts = << >> }

BlockHashes == {"bh1", "bh2"}
RpcOutcomes == BlockHashes \cup {"unreachable", "novalue"}
SignOutcomes == {"signed", "rejected"}

(* ------------------------------------------------------------ exceptions *)
ConnectionError == "requests.ConnectionError"
JSONDecodeError == "JSONDecodeError"
KeyErrorAccepts == "KeyError: 'accepts'"
NoPaymentOptions == "ValueError: Server returned 402 but no payment requirements were listed."
IndexError == "IndexError: list index out of range"
KeyErrorPayTo == "KeyError: 'payTo'"
RpcError == "SolanaRpcException"
NoBlockReference == "AttributeError: 'NoneType' object has no attribute 'blockhash'"
InvalidPublicKey == "ValueError: invalid public key input"
SigningError == "cdp.ApiError"

(* ------------------------------------------------------------------ Init *)
\* the fields of one invocation, local to its coroutine (lines 86-158, 161-173)
Locals ==
    [pc |-> pc, gets |-> gets, resp1 |-> resp1, resp2 |-> resp2,
     payment_requirements |-> payment_requirements, pay_to_address |-> pay_to_address,
     rpcCalls |-> rpcCalls, signCalls |-> signCalls, signOk |-> signOk,
     recent_blockhash |-> recent_blockhash, transaction |-> transaction,
     payment_payload |-> payment_payload, result |-> result, error |-> error,
     wrapperResp |-> wrapperResp, served1 |-> served1, served2 |-> served2,
     rpcOutcome |-> rpcOutcome, signOutcome |-> signOutcome, signature |-> signature,
     current |-> current]

\* no coroutine is suspended
NoParked ==
    [pc |-> "none", gets |-> << >>, resp1 |-> NoResponse, resp2 |-> NoResponse,
     payment_requirements |-> NoDescriptor, pay_to_address |-> "",
     rpcCalls |-> 0, signCalls |-> 0, signOk |-> 0,
     recent_blockhash |-> "", transaction |-> NoTx,
     payment_payload |-> NoProof, result |-> NoBody, error |-> "",
     wrapperResp |-> NoWrapperResp, served1 |-> "none", served2 |-> "none",
     rpcOutcome |-> "none", signOutcome |-> "none", signature |-> NoTx,
     current |-> 0]

Init ==
    /\ pc = "idle"
    /\ invocation = 0
    /\ gets = << >>
    /\ resp1 = NoResponse
    /\ resp2 = NoResponse
    /\ payment_requirements = NoDescriptor
    /\ pay_to_address = ""
    /\ rpcCalls = 0
    /\ signCalls = 0
    /\ signOk = 0
    /\ recent_blockhash = ""
    /\ transaction = NoTx
    /\ payment_payload = NoProof
    /\ result = NoBody
    /\ error = ""
    /\ wrapperResp = NoWrapperResp
    /\ served1 = "none"
    /\ served2 = "none"
    /\ rpcOutcome = "none"
    /\ guardLast = NoGuardRecord
    /\ signOutcome = "none"
    /\ chainSubmits = 0
    /\ signature = NoTx
    /\ totalSignOk = 0
    /\ totalRetries = 0
    /\ acceptedProof = NoHeaders
    /\ executions = 0
    /\ presented = 0
    /\ parked = NoParked
    /\ current = 0

(* ---------------------------------------- run_zerebro_agent_wrapper exits *)
\* a variant that awaits the flow and drops what it returned
Return_Dropped(body) ==
    /\ pc' = "done"
    /\ result' = body
    /\ wrapperResp' = [status |-> 200, body |-> NoBody, detail |-> ""]
    /\ error' = error

\* return result  (JSONResponse, status 200)
Return(body) ==
    /\ pc' = "done"
    /\ result' = body
    /\ wrapperResp' = [status |-> 200, body |-> body, detail |-> ""]
    /\ error' = error

\* a variant that answers normally with an empty body when the flow raised
Raise_Swallowed(e) ==
    /\ pc' = "failed"
    /\ error' = e
    /\ wrapperResp' = [status |-> 200, body |-> NoBody, detail |-> ""]
    /\ result' = result

\* except Exception as e: JSONResponse(status_code=500, content={"detail": ...})
Raise(e) ==
    /\ pc' = "failed"
    /\ error' = e
    /\ wrapperResp' = [status |-> 500, body |-> NoBody, detail |-> e]
    /\ result' = result

(* ---------------------------------------------- manual_x402_solana_flow *)
\* a request to /api/run-zerebro enters the wrapper: the flow builds its clients
\* and issues the first GET without headers
Begin ==
    /\ invocation' = invocation + 1
    /\ current' = invocation + 1
    /\ pc' = "get1"
    /\ gets' = << [url |-> target_url, headers |-> NoHeaders] >>
    /\ resp1' = NoResponse
    /\ resp2' = NoResponse
    /\ payment_requirements' = NoDescriptor
    /\ pay_to_address' = ""
    /\ rpcCalls' = 0
    /\ signCalls' = 0
    /\ signOk' = 0
    /\ recent_blockhash' = ""
    /\ transaction' = NoTx
    /\ payment_payload' = NoProof
    /\ result' = NoBody
    /\ error' = ""
    /\ wrapperResp' = NoWrapperResp
    /\ served1' = "none"
    /\ served2' = "none"
    /\ rpcOutcome' = "none"
    /\ signOutcome' = "none"
    /\ signature' = NoTx
    /\ UNCHANGED guardLast
    /\ UNCHANGED chainSubmits
    /\ UNCHANGED totalSignOk
    /\ UNCHANGED totalRetries
    /\ UNCHANGED acceptedProof
    /\ UNCHANGED executions
    /\ UNCHANGED presented

\* GET /api/run-zerebro arrives while no coroutine is running on the event loop
Start ==
    /\ pc \in {"idle", "done", "failed"}
    /\ invocation < MaxInvocations
    /\ Begin
    /\ UNCHANGED parked

\* if first_response.status_code != 402: return first_response.json()
NeedsPayment_StatusNot200(resp) == resp.status # 200

NeedsPayment(resp) == resp.status = 402

\* if not payment_required_response['accepts']: raise ValueError(...)
NoOptions_Unchecked(body) == FALSE

NoOptions(body) == body.accepts = << >>

ChosenDescriptor_Last(accepts) == accepts[Len(accepts)]

\* payment_requirements = payment_required_response['accepts'][0]
ChosenDescriptor(accepts) == accepts[1]

\* lines 98-113 once the first response is in hand
AfterFirst(resp) ==
    /\ resp1' = resp
    /\ IF ~NeedsPayment(resp) THEN
          /\ IF resp.body.json THEN Return(resp.body) ELSE Raise(JSONDecodeError)
          /\ UNCHANGED <<payment_requirements, pay_to_address, rpcCalls>>
       ELSE IF ~resp.body.json THEN
          /\ Raise(JSONDecodeError)
          /\ UNCHANGED <<payment_requirements, pay_to_address, rpcCalls>>
       ELSE IF ~resp.body.hasAccepts THEN
          /\ Raise(KeyErrorAccepts)
          /\ UNCHANGED <<payment_requirements, pay_to_address, rpcCalls>>
       ELSE IF NoOptions(resp.body) THEN
          /\ Raise(NoPaymentOptions)
          /\ UNCHANGED <<payment_requirements, pay_to_address, rpcCalls>>
       ELSE IF Len(resp.body.accepts) < 1 THEN
          /\ Raise(IndexError)
          /\ UNCHANGED <<payment_requirements, pay_to_address, rpcCalls>>
       ELSE IF ~ChosenDescriptor(resp.body.accepts).hasPayTo THEN
          /\ Raise(KeyErrorPayTo)
          /\ payment_requirements' = ChosenDescriptor(resp.body.accepts)
          /\ UNCHANGED <<pay_to_address, rpcCalls>>
       ELSE
          /\ payment_requirements' = ChosenDescriptor(resp.body.accepts)
          /\ pay_to_address' = ChosenDescriptor(resp.body.accepts).payTo
          /\ rpcCalls' = rpcCalls + 1
          /\ pc' = "rpc"
          /\ UNCHANGED <<result, error, wrapperResp>>
    /\ UNCHANGED <<invocation, gets, resp2, signCalls, signOk, recent_blockhash,
                   transaction, payment_payload, served2, rpcOutcome>>

\* the first GET is answered by the guarded endpoint of this server
Get1Guard ==
    /\ pc = "get1"
    /\ GuardServe(gets[1].headers)
    /\ served1' = "guard"
    /\ AfterFirst(GuardHandle(gets[1].headers).response)
    /\ UNCHANGED signOutcome
    /\ UNCHANGED chainSubmits
    /\ UNCHANGED signature
    /\ UNCHANGED totalSignOk
    /\ UNCHANGED totalRetries
    /\ UNCHANGED parked
    /\ UNCHANGED current

\* the first GET is answered by something else listening at target_url
Get1Other ==
    /\ pc = "get1"
    /\ \E resp \in OtherResponses : AfterFirst(resp)
    /\ served1' = "other"
    /\ UNCHANGED guardLast
    /\ UNCHANGED signOutcome
    /\ UNCHANGED chainSubmits
    /\ UNCHANGED signature
    /\ UNCHANGED totalSignOk
    /\ UNCHANGED totalRetries
    /\ UNCHANGED acceptedProof
    /\ UNCHANGED executions
    /\ UNCHANGED presented
    /\ UNCHANGED parked
    /\ UNCHANGED current

\* requests.get raises (connection refused)
Get1Fails ==
    /\ pc = "get1"
    /\ Raise(ConnectionError)
    /\ served1' = "nobody"
    /\ UNCHANGED <<invocation, gets, resp1, resp2, payment_requirements, pay_to_address,
                   rpcCalls, signCalls, signOk, recent_blockhash, transaction,
                   payment_payload, served2, rpcOutcome, guardLast>>
    /\ UNCHANGED signOutcome
    /\ UNCHANGED chainSubmits
    /\ UNCHANGED signature
    /\ UNCHANGED totalSignOk
    /\ UNCHANGED totalRetries
    /\ UNCHANGED acceptedProof
    /\ UNCHANGED executions
    /\ UNCHANGED presented
    /\ UNCHANGED parked
    /\ UNCHANGED current

\* the first GET reaches the listener of this same process (uvicorn.run starts
\* one process with one event loop): requests.get blocks that loop inside the
\* wrapper's coroutine and has no timeout, so the route that would answer is
\* never scheduled
Get1Self ==
    /\ pc = "get1"
    /\ pc' = "get1_blocked"
    /\ served1' = "self"
    /\ UNCHANGED <<invocation, gets, resp1, resp2, payment_requirements, pay_to_address,
                   rpcCalls, signCalls, signOk, recent_blockhash, transaction,
                   payment_payload, result, error, wrapperResp, served2, rpcOutcome,
                   guardLast, signOutcome, chainSubmits, signature, totalSignOk,
                   totalRetries, acceptedProof, executions, presented>>
    /\ UNCHANGED parked
    /\ UNCHANGED current

\* Transaction().add(transfer(TransferParams(...))) with blockhash and fee payer
BuildTransaction(to, blockhash) ==
    [kind |-> "tx", from |-> CDP_AGENT_ADDRESS, to |-> to, amount |-> lamports_to_send,
     asset |-> "SOL", recent_blockhash |-> blockhash, fee_payer |-> CDP_AGENT_ADDRESS,
     signed |-> FALSE]

\* blockhash_resp = solana_client.get_latest_blockhash();
\* recent_blockhash = blockhash_resp.value.blockhash: the exception raised, "" if none
BlockhashError_NoneTolerated(outcome) ==
    IF outcome = "unreachable" THEN RpcError ELSE ""

BlockhashError(outcome) ==
    IF outcome = "unreachable" THEN RpcError
    ELSE IF outcome = "novalue" THEN NoBlockReference
    ELSE ""

\* a variant that reads the blockhash again when the read fails
RpcReturn_ReadAgain ==
    /\ pc = "rpc"
    /\ \E outcome \in RpcOutcomes :
         /\ rpcOutcome' = outcome
         /\ IF BlockhashError(outcome) # "" THEN
               /\ rpcCalls' = rpcCalls + 1
               /\ UNCHANGED <<pc, result, error, wrapperResp, recent_blockhash,
                              transaction, signCalls>>
            ELSE IF ~(ValidPublicKey(CDP_AGENT_ADDRESS) /\ ValidPublicKey(pay_to_address)) THEN
               /\ Raise(InvalidPublicKey)
               /\ recent_blockhash' = outcome
               /\ UNCHANGED <<transaction, signCalls, rpcCalls>>
            ELSE
               /\ recent_blockhash' = outcome
               /\ transaction' = BuildTransaction(pay_to_address, outcome)
               /\ signCalls' = signCalls + 1
               /\ pc' = "sign"
               /\ UNCHANGED <<result, error, wrapperResp, rpcCalls>>
    /\ UNCHANGED <<invocation, gets, resp1, resp2, payment_requirements, pay_to_address,
                   signOk, payment_payload, served1, served2, guardLast,
                   signOutcome, chainSubmits, signature, totalSignOk, totalRetries,
                   acceptedProof, executions, presented>>
    /\ UNCHANGED parked
    /\ UNCHANGED current

\* lines 113-137: get_latest_blockhash returns, the transaction is built and
\* serialized, and the signing call is issued
RpcReturn ==
    /\ pc = "rpc"
    /\ \E outcome \in RpcOutcomes :
         /\ rpcOutcome' = outcome
         /\ IF BlockhashError(outcome) # "" THEN
               /\ Raise(BlockhashError(outcome))
               /\ UNCHANGED <<recent_blockhash, transaction, signCalls>>
            ELSE IF ~(ValidPublicKey(CDP_AGENT_ADDRESS) /\ ValidPublicKey(pay_to_address)) THEN
               /\ Raise(InvalidPublicKey)
               /\ recent_blockhash' = outcome
               /\ UNCHANGED <<transaction, signCalls>>
            ELSE
               /\ recent_blockhash' = outcome
               /\ transaction' = BuildTransaction(pay_to_address, outcome)
               /\ signCalls' = signCalls + 1
               /\ pc' = "sign"
               /\ UNCHANGED <<result, error, wrapperResp>>
    /\ UNCHANGED <<invocation, gets, resp1, resp2, payment_requirements, pay_to_address,
                   rpcCalls, signOk, payment_payload, served1, served2, guardLast>>
    /\ UNCHANGED signOutcome
    /\ UNCHANGED chainSubmits
    /\ UNCHANGED signature
    /\ UNCHANGED totalSignOk
    /\ UNCHANGED totalRetries
    /\ UNCHANGED acceptedProof
    /\ UNCHANGED executions
    /\ UNCHANGED presented
    /\ UNCHANGED parked
    /\ UNCHANGED current

\* sign_result.signature: the transaction as signed by the custodial wallet
SignedTransaction(tx) == [tx EXCEPT !.signed = TRUE]

\* the X-PAYMENT payload of lines 145-150
BuildPaymentPayload(signed_tx) ==
    [x402Version |-> X402_VERSION, scheme |-> PROOF_SCHEME, network |-> NETWORK,
     payload |-> signed_tx]

SigningFailure_Ignored(outcome) == ""

\* sign_result = await cdp.solana.sign_transaction(...): the exception raised, "" if none
SigningFailure(outcome) == IF outcome = "rejected" THEN SigningError ELSE ""

\* a variant that keeps the first signature it obtained and sends it again in
\* later invocations instead of the one just requested
SignReturn_CachedSignature ==
    /\ pc = "sign"
    /\ \E outcome \in SignOutcomes :
         /\ signOutcome' = outcome
         /\ IF totalSignOk > 0 THEN
               /\ gets' = Append(gets,
                    [url |-> target_url,
                     headers |-> PaymentHeaders(EncodeHeader(payment_payload))])
               /\ pc' = "get2"
               /\ totalRetries' = totalRetries + 1
               /\ UNCHANGED <<result, error, wrapperResp, signOk, payment_payload,
                              signature, totalSignOk>>
            ELSE IF SigningFailure(outcome) # "" THEN
               /\ Raise(SigningFailure(outcome))
               /\ UNCHANGED <<signOk, payment_payload, gets, signature, totalSignOk,
                              totalRetries>>
            ELSE
               /\ signOk' = signOk + 1
               /\ totalSignOk' = totalSignOk + 1
               /\ signature' = SignedTransaction(transaction)
               /\ payment_payload' = BuildPaymentPayload(SignedTransaction(transaction))
               /\ gets' = Append(gets,
                    [url |-> target_url,
                     headers |-> PaymentHeaders(EncodeHeader(
                                    BuildPaymentPayload(SignedTransaction(transaction))))])
               /\ totalRetries' = totalRetries + 1
               /\ pc' = "get2"
               /\ UNCHANGED <<result, error, wrapperResp>>
    /\ UNCHANGED <<invocation, resp1, resp2, payment_requirements, pay_to_address,
                   rpcCalls, signCalls, recent_blockhash, transaction, served1, served2,
                   rpcOutcome, guardLast, chainSubmits, acceptedProof, executions,
                   presented>>
    /\ UNCHANGED parked
    /\ UNCHANGED current

\* lines 137-156: the signing call returns, the header is built and the retry sent
SignReturn ==
    /\ pc = "sign"
    /\ \E outcome \in SignOutcomes :
         /\ signOutcome' = outcome
         /\ IF SigningFailure(outcome) # "" THEN
               /\ Raise(SigningFailure(outcome))
               /\ UNCHANGED <<signOk, payment_payload, gets, signature, totalSignOk,
                              totalRetries>>
            ELSE
               /\ signOk' = signOk + 1
               /\ totalSignOk' = totalSignOk + 1
               /\ signature' = SignedTransaction(transaction)
               /\ payment_payload' = BuildPaymentPayload(SignedTransaction(transaction))
               /\ gets' = Append(gets,
                    [url |-> target_url,
                     headers |-> PaymentHeaders(EncodeHeader(
                                    BuildPaymentPayload(SignedTransaction(transaction))))])
               /\ totalRetries' = totalRetries + 1
               /\ pc' = "get2"
               /\ UNCHANGED <<result, error, wrapperResp>>
    /\ UNCHANGED <<invocation, resp1, resp2, payment_requirements, pay_to_address,
                   rpcCalls, signCalls, recent_blockhash, transaction, served1, served2,
                   rpcOutcome, guardLast, chainSubmits>>
    /\ UNCHANGED acceptedProof
    /\ UNCHANGED executions
    /\ UNCHANGED presented
    /\ UNCHANGED parked
    /\ UNCHANGED current

\* a variant that re-sends the proof while the answer is 402
AfterSecond_RetryOn402(resp) ==
    /\ resp2' = resp
    /\ IF resp.status = 402 THEN
          /\ gets' = Append(gets, gets[2])
          /\ UNCHANGED <<pc, result, error, wrapperResp>>
       ELSE
          /\ IF resp.body.json THEN Return(resp.body) ELSE Raise(JSONDecodeError)
          /\ gets' = gets
    /\ UNCHANGED <<invocation, resp1, payment_requirements, pay_to_address,
                   rpcCalls, signCalls, signOk, recent_blockhash, transaction,
                   payment_payload, served1, rpcOutcome>>

\* lines 156-158 once the second response is in hand
AfterSecond(resp) ==
    /\ resp2' = resp
    /\ IF resp.body.json THEN Return(resp.body) ELSE Raise(JSONDecodeError)
    /\ UNCHANGED <<invocation, gets, resp1, payment_requirements, pay_to_address,
                   rpcCalls, signCalls, signOk, recent_blockhash, transaction,
                   payment_payload, served1, rpcOutcome>>

Get2Guard ==
    /\ pc = "get2"
    /\ GuardServe(gets[2].headers)
    /\ served2' = "guard"
    /\ AfterSecond(GuardHandle(gets[2].headers).response)
    /\ UNCHANGED signOutcome
    /\ UNCHANGED chainSubmits
    /\ UNCHANGED signature
    /\ UNCHANGED totalSignOk
    /\ UNCHANGED totalRetries
    /\ UNCHANGED parked
    /\ UNCHANGED current

Get2Other ==
    /\ pc = "get2"
    /\ \E resp \in RetryResponses : AfterSecond(resp)
    /\ served2' = "other"
    /\ UNCHANGED guardLast
    /\ UNCHANGED signOutcome
    /\ UNCHANGED chainSubmits
    /\ UNCHANGED signature
    /\ UNCHANGED totalSignOk
    /\ UNCHANGED totalRetries
    /\ UNCHANGED acceptedProof
    /\ UNCHANGED executions
    /\ UNCHANGED presented
    /\ UNCHANGED parked
    /\ UNCHANGED current

Get2Fails ==
    /\ pc = "get2"
    /\ Raise(ConnectionError)
    /\ served2' = "nobody"
    /\ UNCHANGED <<invocation, gets, resp1, resp2, payment_requirements, pay_to_address,
                   rpcCalls, signCalls, signOk, recent_blockhash, transaction,
                   payment_payload, served1, rpcOutcome, guardLast>>
    /\ UNCHANGED signOutcome
    /\ UNCHANGED chainSubmits
    /\ UNCHANGED signature
    /\ UNCHANGED totalSignOk
    /\ UNCHANGED totalRetries
    /\ UNCHANGED acceptedProof
    /\ UNCHANGED executions
    /\ UNCHANGED presented
    /\ UNCHANGED parked
    /\ UNCHANGED current

\* the retry reaches the listener of this same process: the loop was free while
\* the signing call was awaited and is held again inside requests.get
Get2Self ==
    /\ pc = "get2"
    /\ pc' = "get2_blocked"
    /\ served2' = "self"
    /\ UNCHANGED <<invocation, gets, resp1, resp2, payment_requirements, pay_to_address,
                   rpcCalls, signCalls, signOk, recent_blockhash, transaction,
                   payment_payload, result, error, wrapperResp, served1, rpcOutcome,
                   guardLast, signOutcome, chainSubmits, signature, totalSignOk,
                   totalRetries, acceptedProof, executions, presented>>
    /\ UNCHANGED parked
    /\ UNCHANGED current

(* ----------------------------------------- any client of /api/data-feed *)
GuardRequest ==
    /\ \E h \in ClientHeaders : GuardServe(h)
    /\ UNCHANGED <<pc, invocation, gets, resp1, resp2, payment_requirements,
                   pay_to_address, rpcCalls, signCalls, signOk, recent_blockhash,
                   transaction, payment_payload, result, error, wrapperResp,
                   served1, served2, rpcOutcome>>
    /\ UNCHANGED signOutcome
    /\ UNCHANGED chainSubmits
    /\ UNCHANGED signature
    /\ UNCHANGED totalSignOk
    /\ UNCHANGED totalRetries
    /\ UNCHANGED parked
    /\ UNCHANGED current

(* ------------------------------------------------ concurrent invocations *)
\* a second request to /api/run-zerebro is taken up while this invocation is
\* suspended at await cdp.solana.sign_transaction(...), the one point where the
\* handler gives up the event loop
StartConcurrent ==
    /\ pc = "sign"
    /\ parked = NoParked
    /\ invocation < MaxInvocations
    /\ parked' = Locals
    /\ Begin

\* a variant whose transaction is held in one place shared by the invocations
Resume_SharedTransaction ==
    /\ parked # NoParked
    /\ pc \in {"sign", "done", "failed"}
    /\ parked' = IF pc = "sign" THEN Locals ELSE NoParked
    /\ pc' = parked.pc
    /\ gets' = parked.gets
    /\ resp1' = parked.resp1
    /\ resp2' = parked.resp2
    /\ payment_requirements' = parked.payment_requirements
    /\ pay_to_address' = parked.pay_to_address
    /\ rpcCalls' = parked.rpcCalls
    /\ signCalls' = parked.signCalls
    /\ signOk' = parked.signOk
    /\ recent_blockhash' = parked.recent_blockhash
    /\ transaction' = transaction
    /\ payment_payload' = parked.payment_payload
    /\ result' = parked.result
    /\ error' = parked.error
    /\ wrapperResp' = parked.wrapperResp
    /\ served1' = parked.served1
    /\ served2' = parked.served2
    /\ rpcOutcome' = parked.rpcOutcome
    /\ signOutcome' = parked.signOutcome
    /\ signature' = parked.signature
    /\ current' = parked.current
    /\ UNCHANGED <<invocation, guardLast, chainSubmits, totalSignOk, totalRetries,
                   acceptedProof, executions, presented>>

\* the event loop goes back to the suspended invocation when the running one
\* has finished or is itself suspended at its signing call; every name of the
\* flow is a local of manual_x402_solana_flow and comes back as it was left
Resume ==
    /\ parked # NoParked
    /\ pc \in {"sign", "done", "failed"}
    /\ parked' = IF pc = "sign" THEN Locals ELSE NoParked
    /\ pc' = parked.pc
    /\ gets' = parked.gets
    /\ resp1' = parked.resp1
    /\ resp2' = parked.resp2
    /\ payment_requirements' = parked.payment_requirements
    /\ pay_to_address' = parked.pay_to_address
    /\ rpcCalls' = parked.rpcCalls
    /\ signCalls' = parked.signCalls
    /\ signOk' = parked.signOk
    /\ recent_blockhash' = parked.recent_blockhash
    /\ transaction' = parked.transaction
    /\ payment_payload' = parked.payment_payload
    /\ result' = parked.result
    /\ error' = parked.error
    /\ wrapperResp' = parked.wrapperResp
    /\ served1' = parked.served1
    /\ served2' = parked.served2
    /\ rpcOutcome' = parked.rpcOutcome
    /\ signOutcome' = parked.signOutcome
    /\ signature' = parked.signature
    /\ current' = parked.current
    /\ UNCHANGED <<invocation, guardLast, chainSubmits, totalSignOk, totalRetries,
                   acceptedProof, executions, presented>>

Next ==
    \/ Start
    \/ Get1Guard
    \/ Get1Other
    \/ Get1Fails
    \/ Get1Self
    \/ RpcReturn
    \/ SignReturn
    \/ Get2Guard
    \/ Get2Other
    \/ Get2Fails
    \/ Get2Self
    \/ GuardRequest

Spec == Init /\ [][Next]_vars

\* invocations interleaved at the signing call, each served by the guard or by
\* another server
NextConc ==
    \/ Start
    \/ StartConcurrent
    \/ Resume
    \/ Get1Guard
    \/ Get1Other
    \/ Get1Fails
    \/ RpcReturn
    \/ SignReturn
    \/ Get2Guard
    \/ Get2Other
    \/ Get2Fails

SpecConc == Init /\ [][NextConc]_vars


(* ------------------------------------------------------------ properties *)
\* the guard handled a request that carried no X-PAYMENT header
GuardSawNoHeader == guardLast.handled /\ ~HasProofHeader(guardLast.headers)

\* the guard handled a request that carried an X-PAYMENT header
GuardSawHeader == guardLast.handled /\ HasProofHeader(guardLast.headers)

\* C1: a request to the protected endpoint without X-PAYMENT header is answered
\* 402 with exactly one descriptor carrying the configured amount 0.01, asset
\* USDC, network solana and the merchant wallet as payTo, and
\* premium_data_endpoint is not invoked for it.
C1_NoHeaderChallenged ==
    GuardSawNoHeader =>
        /\ guardLast.response.status = 402
        /\ guardLast.response.body.json
        /\ guardLast.response.body.hasAccepts
        /\ Len(guardLast.response.body.accepts) = 1
        /\ guardLast.response.body.accepts[1].amount = <<"0", ".", "0", "1">>
        /\ guardLast.response.body.accepts[1].asset = "USDC"
        /\ guardLast.response.body.accepts[1].network = "solana"
        /\ guardLast.response.body.accepts[1].hasPayTo
        /\ guardLast.response.body.accepts[1].payTo = MERCHANT_WALLET
        /\ guardLast.invoked = 0

C1_Witness ==
    /\ GuardSawNoHeader
    /\ guardLast.response.status = 402
    /\ pc = "rpc"
    /\ served1 = "guard"

\* the header value fails decoding, or its proof has a wrong version, scheme,
\* network or recipient, or an insufficient amount
C2_Unacceptable(value) ==
    \/ ~value.b64
    \/ ~value.json
    \/ value.proof.x402Version # 1
    \/ value.proof.scheme # "exact"
    \/ value.proof.network # "solana"
    \/ value.proof.payload.to # MERCHANT_WALLET
    \/ value.proof.payload.amount < 10000

\* C2: a request whose X-PAYMENT header fails decoding or validation is answered
\* 402 (not 200, not 500) without invoking the protected operation, and the
\* protected operation is only ever invoked for a request whose proof validated.
C2_BadProofRechallenged ==
    /\ (GuardSawHeader /\ C2_Unacceptable(ProofHeaderValue(guardLast.headers))) =>
          /\ guardLast.response.status = 402
          /\ guardLast.invoked = 0
    /\ guardLast.invoked > 0 => guardLast.validated

C2_Witness ==
    /\ GuardSawHeader
    /\ ProofHeaderValue(guardLast.headers).b64
    /\ ProofHeaderValue(guardLast.headers).json
    /\ ProofHeaderValue(guardLast.headers).proof.scheme = "upto"
    /\ ProofHeaderValue(guardLast.headers).proof.x402Version = 1
    /\ guardLast.response.status = 402

\* the proof has the expected version, scheme and network and embeds a signed
\* transfer of at least 0.01 USDC (10000 atomic units) to the merchant wallet
C3_Acceptable(value) ==
    /\ value.b64
    /\ value.json
    /\ value.proof.x402Version = 1
    /\ value.proof.scheme = "exact"
    /\ value.proof.network = "solana"
    /\ value.proof.payload.kind = "tx"
    /\ value.proof.payload.signed
    /\ value.proof.payload.to = MERCHANT_WALLET
    /\ value.proof.payload.asset = "USDC"
    /\ value.proof.payload.amount >= 10000

\* C3: a request whose X-PAYMENT header decodes to a proof with the expected
\* version, scheme and network that transfers at least the required amount to
\* the configured recipient makes the guard invoke the protected operation
\* exactly once and answer 200 with its result.
C3_GoodProofServed ==
    (GuardSawHeader /\ C3_Acceptable(ProofHeaderValue(guardLast.headers))) =>
        /\ guardLast.invoked = 1
        /\ guardLast.response.status = 200
        /\ guardLast.response.body = PremiumData

C3_Witness ==
    /\ GuardSawHeader
    /\ C3_Acceptable(ProofHeaderValue(guardLast.headers))
    /\ ProofHeaderValue(guardLast.headers).proof.payload.amount = 10000
    /\ guardLast.response.status = 200

\* C4: with healthy collaborators, when the first GET is answered by the guard
\* (402 with the configured descriptor) and the retry is answered by the guard
\* too, the proof built by manual_x402_solana_flow is accepted: the invocation
\* ends in Done with a 200 response carrying the protected payload.
C4_EndToEndPaid ==
    (served1 = "guard" /\ served2 = "guard") =>
        /\ pc = "done"
        /\ resp2.status = 200
        /\ result = PremiumData

\* the first response has arrived and its status is not 402
C5_FirstNot402 == resp1.status # 0 /\ resp1.status # 402

\* C5 (as stated): the first GET carries no proof header, and a first response
\* whose status is not 402 sends the invocation straight to Done returning that
\* response's body, with no RPC read, no signing call and no second GET.
C5_Not402GoesToDone ==
    /\ Len(gets) >= 1 => gets[1].headers = NoHeaders
    /\ C5_FirstNot402 =>
          /\ pc = "done"
          /\ result = resp1.body
          /\ rpcCalls = 0
          /\ signCalls = 0
          /\ Len(gets) = 1

\* C5 (amended): the first GET carries no proof header, and after a first
\* response whose status is not 402 no RPC read, no signing call and no second
\* GET is made; the invocation is Done returning the body when the body parses
\* as JSON, and fails with the parse error when it does not.
C5_Not402StopsAtOnce ==
    /\ Len(gets) >= 1 => gets[1].headers = NoHeaders
    /\ C5_FirstNot402 =>
          /\ rpcCalls = 0
          /\ signCalls = 0
          /\ Len(gets) = 1
          /\ IF resp1.body.json
             THEN pc = "done" /\ result = resp1.body
             ELSE pc = "failed" /\ error = JSONDecodeError

C5_Witness ==
    /\ resp1.status = 500
    /\ resp1.body.json
    /\ pc = "done"
    /\ result = resp1.body

\* the first response is a 402 whose accepts list is empty
C6_EmptyAccepts ==
    /\ resp1.status = 402
    /\ resp1.body.json
    /\ resp1.body.hasAccepts
    /\ resp1.body.accepts = << >>

\* C6: a 402 first response with an empty accepts list makes the orchestration
\* fail with NoPaymentOptions before any RPC read or signing attempt, and no
\* retry request is sent.
C6_EmptyAcceptsFails ==
    C6_EmptyAccepts =>
        /\ pc = "failed"
        /\ error = NoPaymentOptions
        /\ wrapperResp.status = 500
        /\ rpcCalls = 0
        /\ signCalls = 0
        /\ Len(gets) = 1

C6_Witness == C6_EmptyAccepts /\ pc = "failed" /\ served1 = "other"

\* C7: when the RPC service is unreachable or returns no block reference, the
\* orchestration fails with the RPC failure, the signing service is never
\* called and no retry request is sent in that invocation.
C7_RpcFailureFails ==
    rpcOutcome \in {"unreachable", "novalue"} =>
        /\ pc = "failed"
        /\ error \in {RpcError, NoBlockReference}
        /\ wrapperResp.status = 500
        /\ wrapperResp.detail = error
        /\ signCalls = 0
        /\ Len(gets) = 1

C7_Witness ==
    /\ rpcOutcome = "novalue"
    /\ rpcCalls = 1
    /\ pc = "failed"
    /\ error = NoBlockReference

\* the number of X-PAYMENT headers of a request
PaymentHeaderCount(headers) ==
    Cardinality({i \in 1..Len(headers) : headers[i].name = "X-PAYMENT"})

\* at most two GETs, the second to the same URL with exactly one X-PAYMENT header
C8_SingleRetry ==
    /\ Len(gets) <= 2
    /\ Len(gets) = 2 =>
          /\ gets[2].url = gets[1].url
          /\ PaymentHeaderCount(gets[2].headers) = 1
          /\ Len(gets[2].headers) = 1
    /\ resp2.status # 0 => pc \in {"done", "failed"}

\* C8 (as stated): an invocation sends at most two GETs, nothing follows the
\* retry whatever its status, and the second response's status is what the
\* invocation reports as its outcome.
C8_RetryStatusReported ==
    /\ C8_SingleRetry
    /\ resp2.status # 0 => wrapperResp.status = resp2.status

\* C8 (amended): an invocation sends at most two GETs, nothing follows the
\* retry whatever its status, and the invocation returns the second response's
\* parsed body whatever its status (reported with status 200), or fails when
\* that body does not parse.
C8_RetryBodyReturned ==
    /\ C8_SingleRetry
    /\ resp2.status # 0 =>
          IF resp2.body.json
          THEN pc = "done" /\ result = resp2.body /\ wrapperResp.status = 200
                           /\ wrapperResp.body = resp2.body
          ELSE pc = "failed" /\ error = JSONDecodeError /\ wrapperResp.status = 500

C8_Witness ==
    /\ Len(gets) = 2
    /\ resp2.status = 402
    /\ resp2.body.json
    /\ pc = "done"
    /\ result = resp2.body
    /\ wrapperResp.status = 200

\* C9: every proof the orchestrator sends has x402Version 1 and the scheme and
\* network of the descriptor chosen from the 402 response.
C9_ProofCopiesDescriptor ==
    \A i \in 1..Len(gets) :
        HasProofHeader(gets[i].headers) =>
            /\ ProofHeaderValue(gets[i].headers).proof.x402Version = 1
            /\ ProofHeaderValue(gets[i].headers).proof.scheme = payment_requirements.scheme
            /\ ProofHeaderValue(gets[i].headers).proof.network = payment_requirements.network

\* the first descriptor of the 402 response has no payTo or an empty one
C10_BadPayTo ==
    /\ resp1.status = 402
    /\ resp1.body.json
    /\ resp1.body.hasAccepts
    /\ resp1.body.accepts # << >>
    /\ (~resp1.body.accepts[1].hasPayTo \/ resp1.body.accepts[1].payTo = "")

\* C10 (as stated): a chosen descriptor with a missing or empty payTo makes the
\* orchestration fail with the malformed-requirement error, propagated to the
\* caller, without a signing call or a retry request.
C10_BadPayToMalformed ==
    C10_BadPayTo =>
        /\ signCalls = 0
        /\ Len(gets) = 1
        /\ pc \in {"rpc", "failed"}
        /\ pc = "failed" =>
              /\ error \in {KeyErrorPayTo, InvalidPublicKey}
              /\ wrapperResp.status = 500
              /\ wrapperResp.detail = error

\* C10 (amended): a chosen descriptor with a missing or empty payTo makes the
\* orchestration fail, the failure propagated to the caller, without a signing
\* call or a retry request: a missing payTo fails with KeyError before any RPC
\* read; an empty payTo fails with the invalid-public-key error once the RPC
\* read has returned a block reference, and with the RPC's own failure when
\* that read fails.
C10_BadPayToFails ==
    C10_BadPayTo =>
        /\ signCalls = 0
        /\ Len(gets) = 1
        /\ pc \in {"rpc", "failed"}
        /\ pc = "rpc" => resp1.body.accepts[1].hasPayTo
        /\ pc = "failed" =>
              /\ wrapperResp.status = 500
              /\ wrapperResp.detail = error
              /\ IF ~resp1.body.accepts[1].hasPayTo
                 THEN error = KeyErrorPayTo /\ rpcCalls = 0
                 ELSE IF rpcOutcome \in BlockHashes
                 THEN error = InvalidPublicKey
                 ELSE error \in {RpcError, NoBlockReference}

C10_Witness ==
    /\ C10_BadPayTo
    /\ resp1.body.accepts[1].hasPayTo
    /\ pc = "failed"
    /\ error = InvalidPublicKey
    /\ rpcCalls = 1

\* C11: every exception raised in manual_x402_solana_flow (HTTP failure, body
\* parse failure, empty accepts, RPC failure, transaction construction failure,
\* signing failure) is caught by run_zerebro_agent_wrapper and answered 500
\* with the error's description as detail; no failure is answered as a success.
C11_FailuresAnswered500 ==
    /\ pc = "failed" =>
          /\ error # ""
          /\ wrapperResp.status = 500
          /\ wrapperResp.detail = error
    /\ error # "" => pc = "failed"
    /\ wrapperResp.status = 200 => (pc = "done" /\ error = "")
    /\ served1 = "nobody" => wrapperResp.status = 500
    /\ (resp1.status # 0 /\ ~resp1.body.json) => wrapperResp.status = 500
    /\ (resp1.status = 402 /\ resp1.body.json /\ resp1.body.hasAccepts
           /\ resp1.body.accepts = << >>) => wrapperResp.status = 500
    /\ rpcOutcome \in {"unreachable", "novalue"} => wrapperResp.status = 500
    /\ (rpcOutcome \in BlockHashes /\ ~ValidPublicKey(pay_to_address)) =>
          wrapperResp.status = 500
    /\ signOutcome = "rejected" => wrapperResp.status = 500
    /\ served2 = "nobody" => wrapperResp.status = 500
    /\ (resp2.status # 0 /\ ~resp2.body.json) => wrapperResp.status = 500

C11_Witness ==
    /\ signOutcome = "rejected"
    /\ pc = "failed"
    /\ error = SigningError
    /\ wrapperResp.status = 500
    /\ wrapperResp.detail = SigningError

\* C13: within one invocation the block-reference fetch completes before the
\* transaction is constructed, the signing call completes successfully before
\* the retry GET is sent, and no retry GET is sent when the signing call
\* failed, was rejected or never happened.
C13_StepsOrdered ==
    /\ transaction # NoTx =>
          /\ rpcOutcome \in BlockHashes
          /\ transaction.recent_blockhash = rpcOutcome
    /\ signCalls > 0 => transaction # NoTx
    /\ Len(gets) >= 2 =>
          /\ signOutcome = "signed"
          /\ signCalls > 0
          /\ ProofHeaderValue(gets[2].headers).proof.payload = SignedTransaction(transaction)
    /\ signOutcome # "signed" => Len(gets) <= 1
    /\ resp2.status # 0 => signOutcome = "signed"

C13_Witness ==
    /\ signOutcome = "rejected"
    /\ signCalls = 1
    /\ pc = "failed"
    /\ Len(gets) = 1

\* C14: no invocation makes more than one RPC read or more than one signing
\* call, none submits a transaction to the chain, and an invocation that
\* reaches the retry has made exactly one RPC read and one signing call.
C14_OneReadOneSign ==
    /\ rpcCalls <= 1
    /\ signCalls <= 1
    /\ chainSubmits = 0
    /\ Len(gets) >= 2 => (rpcCalls = 1 /\ signCalls = 1)

C14_Witness ==
    /\ Len(gets) = 2
    /\ rpcCalls = 1
    /\ signCalls = 1
    /\ pc = "done"

\* the transaction the flow builds from the first descriptor of the challenge
\* and the block reference it fetched
C15_TxFromFirst ==
    BuildTransaction(resp1.body.accepts[1].payTo, recent_blockhash)

\* C15: the orchestrator always uses accepts[0]: the recipient of the
\* transaction is the payTo of the first descriptor, and the transaction and
\* the proof sent are determined by the first descriptor (and the block
\* reference) alone, whatever follows it in the accepts list.
C15_FirstDescriptorUsed ==
    /\ payment_requirements # NoDescriptor => payment_requirements = resp1.body.accepts[1]
    /\ transaction # NoTx =>
          /\ transaction.to = resp1.body.accepts[1].payTo
          /\ transaction = C15_TxFromFirst
    /\ Len(gets) >= 2 =>
          gets[2].headers =
             PaymentHeaders(EncodeHeader(BuildPaymentPayload(SignedTransaction(C15_TxFromFirst))))

C15_Witness ==
    /\ Len(gets) = 2
    /\ Len(resp1.body.accepts) = 2
    /\ resp1.body.accepts[1].payTo # resp1.body.accepts[2].payTo
    /\ transaction.to = OtherWallet

\* the retry GET has been sent in the current invocation
C18_RetrySent == Len(gets) >= 2

\* C18: each retry request carries a proof built in that same invocation, its
\* payload being the signature returned by that invocation's own signing call,
\* and across invocations the number of retry GETs sent equals the number of
\* signing calls that returned successfully.
C18_FreshProofPerRetry ==
    /\ totalRetries = totalSignOk
    /\ C18_RetrySent =>
          /\ signOutcome = "signed"
          /\ signature # NoTx
          /\ signature.recent_blockhash = rpcOutcome
          /\ ProofHeaderValue(gets[2].headers).proof.payload = signature
          /\ PaymentHeaderCount(gets[2].headers) = 1
    /\ ~C18_RetrySent => signature = NoTx

C18_Witness ==
    /\ invocation = 2
    /\ totalRetries = 2
    /\ totalSignOk = 2
    /\ C18_RetrySent
    /\ signature.recent_blockhash = "bh2"

\* the last response the orchestrator received
C20_LastResponse == IF resp2.status # 0 THEN resp2 ELSE resp1

\* C20: the wrapper answers 500 exactly when manual_x402_solana_flow raised;
\* otherwise it answers 200 with the parsed body of the last response the
\* orchestrator received, whatever that response's status code was.
C20_WrapperStatus ==
    /\ wrapperResp.status \in {0, 200, 500}
    /\ wrapperResp.status = 500 <=> pc = "failed"
    /\ wrapperResp.status = 200 <=> pc = "done"
    /\ pc = "failed" => error # ""
    /\ pc = "done" =>
          /\ error = ""
          /\ C20_LastResponse.body.json
          /\ wrapperResp.body = C20_LastResponse.body

C20_Witness ==
    /\ pc = "done"
    /\ resp1.status = 402
    /\ resp2.status = 500
    /\ resp2.body.json
    /\ wrapperResp.status = 200
    /\ wrapperResp.body = resp2.body

\* one proof value has been accepted and presented again
C12_Replayed == acceptedProof # NoHeaders /\ presented >= 2

\* C12 (as stated): across any sequence of requests the number of executions of
\* premium_data_endpoint attributable to one proof value never exceeds one.
C12_OncePerProofValue == executions <= 1

\* C12 (amended): the protected operation is executed exactly once for each
\* request that carries an accepted proof and never for another request; a
\* proof value presented in k such requests is executed k times.
C12_OncePerAcceptedRequest ==
    /\ guardLast.invoked <= 1
    /\ guardLast.invoked = 1 <=> guardLast.validated
    /\ guardLast.validated <=> guardLast.response.status = 200
    /\ executions = presented
    /\ acceptedProof = NoHeaders <=> executions = 0

C12_Witness ==
    /\ C12_Replayed
    /\ executions = 2
    /\ guardLast.invoked = 1

\* C16: the guard keeps no replay-protection state: a request carrying a proof
\* that was accepted before is accepted again (200, protected operation
\* invoked), whatever requests without a proof came in between.
C16_ReplayAccepted ==
    (guardLast.handled /\ acceptedProof # NoHeaders /\ guardLast.headers = acceptedProof) =>
        /\ guardLast.response.status = 200
        /\ guardLast.response.body = PremiumData
        /\ guardLast.invoked > 0

C16_Witness ==
    /\ C12_Replayed
    /\ guardLast.headers = acceptedProof
    /\ guardLast.response.status = 200
    /\ pc = "done"

(* ------------------------------------------------------------------ C19 *)
\* the wrapper's coroutine is running on the event loop: every call of the flow
\* but the awaited signing call is synchronous
LoopHeld == pc \in {"get1", "get1_blocked", "rpc", "get2", "get2_blocked"}

\* the flow is inside requests.get on a connection to its own process
WaitsOnOwnGuard == pc \in {"get1_blocked", "get2_blocked"}

\* C19: the system never reaches a state where the wrapper waits on the guard
\* while the guard cannot be scheduled, so every request to /api/run-zerebro
\* eventually completes.
C19_GuardSchedulable == ~(WaitsOnOwnGuard /\ LoopHeld)

(* ------------------------------------------------------------------ C17 *)
\* manual_x402_solana_flow run on its own, as a function of what the servers
\* answered it: who answered the GETs (s1, s2) with what (r1, r2), the outcome
\* of the blockhash read (rpc) and of the signing call (sig)
FlowAlone(s1, r1, rpc, sig, s2, r2) ==
    LET d == ChosenDescriptor(r1.body.accepts)
        proof == BuildPaymentPayload(SignedTransaction(BuildTransaction(d.payTo, rpc)))
        Failed(e, p) == [pc |-> "failed", result |-> NoBody, error |-> e, proof |-> p,
                         wrapperResp |-> [status |-> 500, body |-> NoBody, detail |-> e]]
        Done(b, p) == [pc |-> "done", result |-> b, error |-> "", proof |-> p,
                       wrapperResp |-> [status |-> 200, body |-> b, detail |-> ""]]
    IN  IF s1 = "nobody" THEN Failed(ConnectionError, NoProof)
        ELSE IF ~NeedsPayment(r1) THEN
            IF r1.body.json THEN Done(r1.body, NoProof) ELSE Failed(JSONDecodeError, NoProof)
        ELSE IF ~r1.body.json THEN Failed(JSONDecodeError, NoProof)
        ELSE IF ~r1.body.hasAccepts THEN Failed(KeyErrorAccepts, NoProof)
        ELSE IF NoOptions(r1.body) THEN Failed(NoPaymentOptions, NoProof)
        ELSE IF ~d.hasPayTo THEN Failed(KeyErrorPayTo, NoProof)
        ELSE IF BlockhashError(rpc) # "" THEN Failed(BlockhashError(rpc), NoProof)
        ELSE IF ~(ValidPublicKey(CDP_AGENT_ADDRESS) /\ ValidPublicKey(d.payTo)) THEN
            Failed(InvalidPublicKey, NoProof)
        ELSE IF SigningFailure(sig) # "" THEN Failed(SigningFailure(sig), NoProof)
        ELSE IF s2 = "nobody" THEN Failed(ConnectionError, proof)
        ELSE IF r2.body.json THEN Done(r2.body, proof)
        ELSE Failed(JSONDecodeError, proof)

\* the headers the guard accepts, from the header and the configuration alone
GuardAccepts(headers) ==
    /\ HasProofHeader(headers)
    /\ Decodes(ProofHeaderValue(headers))
    /\ ValidProof(ProofHeaderValue(headers).proof)

\* C17: whatever the interleaving of concurrent invocations and guard requests,
\* each invocation ends as it would have run alone on the same answers and
\* sends the proof it would have sent alone, and each guard request is decided
\* from its own header only.
C17_NoInterference ==
    /\ pc \in {"done", "failed"} =>
          /\ [pc |-> pc, result |-> result, error |-> error, proof |-> payment_payload,
              wrapperResp |-> wrapperResp]
                = FlowAlone(served1, resp1, rpcOutcome, signOutcome, served2, resp2)
          /\ Len(gets) = IF payment_payload = NoProof THEN 1 ELSE 2
    /\ pc \in {"get2", "done", "failed"} /\ Len(gets) = 2 =>
          /\ gets[2].headers = PaymentHeaders(EncodeHeader(payment_payload))
          /\ payment_payload =
               BuildPaymentPayload(SignedTransaction(BuildTransaction(
                   ChosenDescriptor(resp1.body.accepts).payTo, rpcOutcome)))
    /\ guardLast.handled =>
          /\ guardLast.validated = GuardAccepts(guardLast.headers)
          /\ guardLast.response =
               IF GuardAccepts(guardLast.headers)
               THEN [status |-> 200, body |-> PremiumData]
               ELSE [status |-> 402, body |-> PaymentRequiredBody]

\* the first invocation was suspended at its signing call, a second one with
\* another payee ran to its end meanwhile, and the first then sent its own proof
C17_Witness ==
    /\ invocation = 2
    /\ current = 1
    /\ parked = NoParked
    /\ pc = "done"
    /\ payment_payload # NoProof
    /\ totalRetries = 2
    /\ guardLast.handled
    /\ guardLast.headers # NoHeaders
    /\ guardLast.headers # gets[2].headers

====
